---- MODULE Spec2Model ----
(***************************************************************************)
(* Model of the syncary synchronisation engine: FileSyncTask.execute and   *)
(* FileSyncTask._sync_recursive (src/core/task_manager.py) running over    *)
(* the LocalFileConnector (src/core/connectors/local_file_connector.py).   *)
(*                                                                         *)
(* One file system holds both trees.  A path is a sequence of names, a     *)
(* name is <<base, marks, ext>>: the text before the extension, the        *)
(* timestamps of the "_conflict_<timestamp>" markers appended to it, and   *)
(* the extension.  A pass is executed one loop iteration at a time; every  *)
(* connector call is written to `log`.                                     *)
(***************************************************************************)
EXTENDS Integers, Sequences, FiniteSets, TLC

VARIABLES
    fs,         \* the file system: existing path |-> node
    options,    \* FileSyncTask.options, a dict (a function on the keys present)
    clock,      \* datetime.now(), in whole seconds
    pc,         \* "idle" (no pass in progress) or "running"
    stack,      \* the activation records of _sync_recursive, innermost last
    log,        \* the connector calls (and branch events) of the current pass
    runs,       \* how many times execute has been entered
    outcomes,   \* how each finished pass ended, in order
    fs0,        \* the file system as it was when the current pass started
    faulty,     \* whether the backend may fail calls in this behaviour
    connector,  \* FileSyncTask.connector: "LocalFileConnector" or "None"
    \* the Scheduler, the threads it started and the thread that calls it
    tasks,            \* task_manager.list_tasks(): for each task the entries a pass meets
    stdin,            \* what input() finds: "attended", "silent" or "closed"
    scheduler_thread, \* Scheduler.scheduler_thread: 0 for None, else a thread
    stop_event,       \* Scheduler.stop_event
    threads,          \* the threads created by start, in order of creation
    jobs,             \* the jobs of the schedule module, in order of registration
    caller,           \* where the thread calling start and stop is
    stopped,          \* the threads that existed when a stop call returned
    \* the connectors called on their own
    disk,             \* the file system LocalFileConnector works on
    drive,            \* the items Google Drive holds
    calls,            \* the connector calls made so far, with what they found and left
    \* the TaskManager, the ConfigurationManager and the file behind them
    config_file,      \* settings.json: missing, not JSON, or the dict it holds
    config_instance,  \* whether ConfigurationManager._instance is set
    config_data,      \* ConfigurationManager.config_data
    instance,         \* whether TaskManager._instance is set
    task_list,        \* TaskManager.tasks
    task_types,       \* the keys of TaskManager.task_types
    last,             \* the latest call, whether it raised, and what it found
    processes         \* how many times the program has been started

passVars == <<fs, options, clock, pc, stack, log, runs, outcomes, fs0, faulty, connector>>
schedVars == <<tasks, stdin, scheduler_thread, stop_event, threads, jobs, caller, stopped>>

connVars == <<disk, drive, calls>>
taskVars == <<config_file, config_instance, config_data, instance, task_list,
              task_types, last, processes>>

\* the variables no step of a pass changes
others == <<connector, schedVars, connVars, taskVars>>

vars == <<fs, options, clock, pc, stack, log, runs, outcomes, fs0, faulty, others>>

-----------------------------------------------------------------------------
(* Bounds of the model *)

MaxClock == 1
MaxRuns == 2

-----------------------------------------------------------------------------
(* Names and paths *)

MkName(base, ext) == <<base, <<>>, ext>>

NameA == MkName("a", ".txt")
NameB == MkName("b", "")

SourceRoot == <<MkName("test_source", "")>>
DestinationRoot == <<MkName("remote_folder", "")>>

\* os.path.join
Join(a, b) == a \o b

\* a path below the source root, and its counterpart below the destination root
SrcOf(rel) == Join(SourceRoot, rel)
DstOf(rel) == Join(DestinationRoot, rel)

\* os.path.split: head and tail
Parent(p) == SubSeq(p, 1, Len(p) - 1)
BaseName(p) == p[Len(p)]

IsUnder(p, root) == Len(p) >= Len(root) /\ SubSeq(p, 1, Len(root)) = root

File(c, m) == [type |-> "file", content |-> c, mtime |-> m]
Folder == [type |-> "folder", content |-> 0, mtime |-> 0]

Exists(f, p) == p \in DOMAIN f
IsDir(f, p) == Exists(f, p) /\ f[p].type = "folder"
IsFile(f, p) == Exists(f, p) /\ f[p].type = "file"

Children(f, p) == {q \in DOMAIN f : Len(q) = Len(p) + 1 /\ Parent(q) = p}

Put(f, p, node) == [q \in DOMAIN f \cup {p} |-> IF q = p THEN node ELSE f[q]]
RemoveTree(f, p) == [q \in {r \in DOMAIN f : ~IsUnder(r, p)} |-> f[q]]

-----------------------------------------------------------------------------
(* LocalFileConnector *)

\* get_file_list: the path must be a listable directory
ListOk(f, p) == IsDir(f, p)
ListEntries(f, p) == {[name |-> BaseName(q), type |-> f[q].type] : q \in Children(f, p)}

\* upload_file is shutil.copy2(local_path, remote_path): a destination that is a
\* directory receives the file under the source's base name
CopyTarget(f, src, dst) == IF IsDir(f, dst) THEN Join(dst, <<BaseName(src)>>) ELSE dst
UploadOk(f, src, dst) ==
    /\ IsFile(f, src)
    /\ IsDir(f, Parent(dst))
    /\ ~IsDir(f, CopyTarget(f, src, dst))
    /\ CopyTarget(f, src, dst) # src
\* defective variant of CopyNode: only the metadata is carried over, not the bytes
CopyNodeMetadataOnly(node) == File(0, node.mtime)
\* copy2 copies the bytes and the modification time
CopyNode(node) == File(node.content, node.mtime)
\* defective variant of UploadFile: the file is moved, not copied
UploadFileMoves(f, src, dst) ==
    RemoveTree(Put(f, CopyTarget(f, src, dst), CopyNode(f[src])), src)
UploadFile(f, src, dst) == Put(f, CopyTarget(f, src, dst), CopyNode(f[src]))

\* delete_file: shutil.rmtree for a directory, os.remove otherwise
DeleteOk(f, p) == Exists(f, p)
DeleteFile(f, p) == RemoveTree(f, p)

\* create_folder is os.makedirs(path, exist_ok=True)
RECURSIVE MakeDirsOk(_, _)
MakeDirsOk(f, p) ==
    IF Exists(f, p) THEN IsDir(f, p)
    ELSE Len(p) <= 1 \/ MakeDirsOk(f, Parent(p))
RECURSIVE MakeDirs(_, _)
MakeDirs(f, p) ==
    IF Exists(f, p) \/ Len(p) = 0 THEN f
    ELSE Put(MakeDirs(f, Parent(p)), p, Folder)

-----------------------------------------------------------------------------
(* FileSyncTask helpers *)

\* dict.get(key, default)
Get(d, key, default) == IF key \in DOMAIN d THEN d[key] ELSE default

\* _calculate_checksum: SHA-256 of the bytes, one digest per content
Sha256(bytes) == <<"sha256", bytes>>
CalculateChecksum(f, p) == Sha256(f[p].content)

\* defective variant of RenameConflictingFile: the path is returned as it came
RenameInPlace(p, now) == p
\* os.path.splitext followed by the f-string of _rename_conflicting_file
RenameConflictingFile(p, now) ==
    Join(Parent(p), <<  <<BaseName(p)[1], Append(BaseName(p)[2], now), BaseName(p)[3]>>  >>)

-----------------------------------------------------------------------------
(* The states a pass can start from *)

Absent == [type |-> "absent", content |-> 0, mtime |-> 0]

\* relative paths that may be populated on each side
SrcRel == {<<NameA>>, <<NameB>>, <<NameB, NameA>>}
GeneratedA == RenameConflictingFile(<<NameA>>, 0)
DstRel == SrcRel \cup {GeneratedA}

SrcNodes == {File(c, 2) : c \in {1, 2}} \cup {Folder}
DstNodes(p) == IF p = GeneratedA THEN {File(1, 1)}
               ELSE {File(1, m) : m \in {1, 2, 3}} \cup {Folder}

\* a child is present only inside a folder
WellFormed(t) ==
    \A p \in DOMAIN t :
        (Len(p) > 1 /\ t[p] # Absent) => t[Parent(p)].type = "folder"

SrcTrees == {t \in [SrcRel -> SrcNodes \cup {Absent}] : WellFormed(t)}
DstTrees == {t \in [DstRel -> UNION {DstNodes(p) : p \in DstRel} \cup {Absent}] :
                /\ WellFormed(t)
                /\ \A p \in DstRel : t[p] = Absent \/ t[p] \in DstNodes(p)}

Present(t) == {p \in DOMAIN t : t[p] # Absent}

\* the file system holding a source tree and a destination tree under their roots
MakeFs(s, d, dstRoot) ==
    [q \in {SourceRoot} \cup {Join(SourceRoot, p) : p \in Present(s)}
           \cup (IF dstRoot THEN {DestinationRoot} ELSE {})
           \cup {Join(DestinationRoot, p) : p \in Present(d)} |->
        IF q = SourceRoot \/ q = DestinationRoot THEN Folder
        ELSE IF IsUnder(q, SourceRoot) THEN s[SubSeq(q, 2, Len(q))]
        ELSE d[SubSeq(q, 2, Len(q))]]

ConflictPolicies == {"prompt", "rename", "PreferSource", "Abort"}
OptionDicts ==
    {[delete |-> d, conflict_resolution |-> c] : d \in BOOLEAN, c \in ConflictPolicies}
    \cup {[k \in {} |-> TRUE]}

\* no Scheduler has been constructed
NoScheduler ==
    /\ tasks = <<>>
    /\ stdin = "attended"
    /\ scheduler_thread = 0
    /\ stop_event = FALSE
    /\ threads = <<>>
    /\ jobs = <<>>
    /\ caller = "idle"
    /\ stopped = {}

\* no connector is called outside a pass
NoConnectorCall ==
    /\ disk = <<>>
    /\ drive = {}
    /\ calls = <<>>

\* a configuration dict: whether it has the key "tasks", the list under it,
\* and whether it has the keys dropbox_app_key and dropbox_app_secret
Config(has_tasks, stored, dropbox) ==
    [has_tasks |-> has_tasks, tasks |-> stored, dropbox |-> dropbox]
EmptyConfig == Config(FALSE, <<>>, FALSE)
ConfigFile(state, data) == [state |-> state, data |-> data]
\* a call on the managers: its name, whether it raised, the call before it,
\* and, for a call that raised, TaskManager.tasks and config_data as it found
\* them
Called(op, raised, prev, found_tasks, found_config) ==
    [op |-> op, raised |-> raised, prev |-> prev,
     tasks |-> found_tasks, config |-> found_config]
NoCall == Called("none", FALSE, "none", <<>>, EmptyConfig)

\* no program has been started
NoTaskManager ==
    /\ config_file = ConfigFile("missing", EmptyConfig)
    /\ config_instance = FALSE
    /\ config_data = EmptyConfig
    /\ instance = FALSE
    /\ task_list = <<>>
    /\ task_types = {}
    /\ last = NoCall
    /\ processes = 0

Init ==
    /\ \E s \in SrcTrees, d \in DstTrees, dstRoot \in BOOLEAN :
          /\ dstRoot \/ Present(d) = {}
          /\ fs = MakeFs(s, d, dstRoot)
    /\ options \in OptionDicts
    /\ clock = 0
    /\ pc = "idle"
    /\ stack = <<>>
    /\ log = <<>>
    /\ runs = 0
    /\ outcomes = <<>>
    /\ fs0 = fs
    /\ faulty \in BOOLEAN
    /\ connector \in {"LocalFileConnector", "None"}
    /\ connector = "None" => ~faulty
    /\ NoScheduler
    /\ NoConnectorCall
    /\ NoTaskManager

-----------------------------------------------------------------------------
(* Activation records of _sync_recursive *)

\* a call that has not listed its directories yet
NewFrame(rel) ==
    [rel |-> rel, listed |-> FALSE, src |-> {}, dst |-> {},
     phases |-> <<>>, todo |-> {}, asking |-> {}, choice |-> ""]

Top == stack[Len(stack)]
ReplaceTop(frame) == [stack EXCEPT ![Len(stack)] = frame]

\* the keys of source_files / destination_files, and an entry's "type"
Names(entries) == {e.name : e \in entries}
TypeOf(entries, name) == (CHOOSE e \in entries : e.name = name).type

\* defective variant of DeleteEnabled: the option defaults to True
DeleteEnabledByDefault(opts) == Get(opts, "delete", TRUE)
\* self.options.get("delete", False)
DeleteEnabled(opts) == Get(opts, "delete", FALSE)

\* defective variant of Phases: the source entries are handled before the deletions
PhasesSyncFirst(opts) == IF DeleteEnabled(opts) THEN <<"sync", "delete">> ELSE <<"sync">>
\* defective variant of Phases: the loop over the source entries runs twice
PhasesSyncTwice(opts) ==
    IF DeleteEnabled(opts) THEN <<"delete", "sync", "sync">> ELSE <<"sync", "sync">>
\* defective variant of Phases: the deletion loop is gone through a second time
PhasesDeleteTwice(opts) ==
    IF DeleteEnabled(opts) THEN <<"delete", "delete", "sync">> ELSE <<"sync">>
\* the two loops of a level, in the order the code runs them
Phases(opts) == IF DeleteEnabled(opts) THEN <<"delete", "sync">> ELSE <<"sync">>

\* the entries a loop acts on: the deletion loop skips every name the source
\* has, the second loop takes every source entry
\* defective variant of Extraneous: only files are deleted, folders are left behind
ExtraneousFilesOnly(frame) ==
    {n \in Names(frame.dst) : n \notin Names(frame.src) /\ TypeOf(frame.dst, n) = "file"}
Extraneous(frame) == {n \in Names(frame.dst) : n \notin Names(frame.src)}
LoopEntries(frame, phase) ==
    IF phase = "delete" THEN Extraneous(frame) ELSE Names(frame.src)

\* a loop that has no entry left falls through to the next loop, a call that
\* has no loop left returns to its caller
RECURSIVE Settle(_)
Settle(st) ==
    IF st = <<>> THEN st
    ELSE LET top == st[Len(st)] IN
         IF ~top.listed \/ top.asking # {} \/ top.todo # {} THEN st
         ELSE IF Len(top.phases) > 1
              THEN Settle([st EXCEPT ![Len(st)] =
                              [top EXCEPT !.phases = Tail(top.phases),
                                          !.todo = LoopEntries(top, top.phases[2])]])
              ELSE Settle(SubSeq(st, 1, Len(st) - 1))

\* a record of one connector call (or of a branch taken) at the current level
Event(op, path, arg, ok) ==
    [op |-> op, path |-> path, arg |-> arg, ok |-> ok,
     level |-> Top.rel, existed |-> Exists(fs, path),
     seen |-> IF op = "get_file_list" /\ ok THEN ListEntries(fs, path) ELSE {}]

\* the line input() returned to a prompt that it settled
InputEvent(path, arg, line) ==
    [op |-> "input", path |-> path, arg |-> arg, ok |-> TRUE,
     level |-> Top.rel, existed |-> Exists(fs, path), seen |-> {}, line |-> line]

\* the line print()ed after a connector call that returned: what was done, and
\* the destination path handed to the call
Printed(event) ==
    [kind |-> CASE event.op = "delete_file" -> "deleted"
                [] event.op = "upload_file" -> "uploaded"
                [] event.op = "create_folder" -> "folder created",
     path |-> event.path,
     source |-> event.arg]

\* the pass goes on (or returns normally when nothing is left)
Continue(f, st, events, now) ==
    /\ fs' = f
    /\ clock' = now
    /\ stack' = Settle(st)
    /\ log' = log \o events
    /\ IF Settle(st) = <<>>
       THEN pc' = "idle" /\ outcomes' = Append(outcomes, "returned")
       ELSE UNCHANGED <<pc, outcomes>>
    /\ UNCHANGED <<options, runs, fs0, faulty, others>>

\* defective variant of Caught: only the connector's own error is handled
CaughtSyncErrorOnly(kind) == kind = "FileSynchronizationError"
\* the except clauses of execute: FileSynchronizationError, then Exception
Caught(kind) == kind \in {"FileSynchronizationError", "Exception"}

\* an exception unwinds every call; execute catches it, prints and returns, or
\* it leaves execute and reaches the caller
Raise(kind, events) ==
    /\ stack' = <<>>
    /\ IF Caught(kind)
       THEN pc' = "idle" /\ outcomes' = Append(outcomes, kind)
       ELSE pc' = "crashed" /\ UNCHANGED outcomes
    /\ log' = log \o events
    /\ UNCHANGED <<fs, options, clock, runs, fs0, faulty, others>>

\* self.connector.upload_file(source, target)
Upload(src, target, st, fault, before, now) ==
    IF ~UploadOk(fs, src, target) \/ fault
    THEN Raise("FileSynchronizationError",
               before \o <<Event("upload_file", target, src, FALSE)>>)
    ELSE Continue(UploadFile(fs, src, target), st,
                  before \o <<Event("upload_file", target, src, TRUE)>>, now)

\* defective variant of ChecksumsDiffer: a different modification time also counts
ChecksumOrMtimeDiffer(f, src, dst) ==
    \/ CalculateChecksum(f, src) # CalculateChecksum(f, dst)
    \/ f[src].mtime # f[dst].mtime
\* source_checksum != dest_checksum
ChecksumsDiffer(f, src, dst) == CalculateChecksum(f, src) # CalculateChecksum(f, dst)
\* defective variant of SourceNewer: an equal modification time also uploads
SourceNotOlder(f, src, dst) == f[src].mtime >= f[dst].mtime
\* source_mtime > dest_mtime
SourceNewer(f, src, dst) == f[src].mtime > f[dst].mtime

-----------------------------------------------------------------------------
(* Operations *)

\* whether a backend call fails although the file system would allow it
Faults == IF faulty THEN BOOLEAN ELSE {FALSE}

\* FileSyncTask.execute is entered.  A behaviour either repeats the pass on a
\* healthy backend (up to MaxRuns times) or runs one pass on a failing one.
Execute ==
    /\ pc = "idle"
    /\ runs < (IF faulty THEN 1 ELSE MaxRuns)
    /\ runs' = runs + 1
    /\ log' = <<>>
    /\ fs0' = fs
    /\ IF connector = "None"
       THEN \* "Error: FileSyncTask requires a connector." and return
            /\ outcomes' = Append(outcomes, "returned")
            /\ UNCHANGED <<pc, stack>>
       ELSE /\ pc' = "running"
            /\ stack' = <<NewFrame(<<>>)>>
            /\ UNCHANGED outcomes
    /\ UNCHANGED <<fs, options, clock, faulty, others>>

\* defective variant of DestinationListingCaught: the error is let through
DestinationListingNotCaught == FALSE
\* the try/except around the destination listing sets destination_entries = []
DestinationListingCaught == TRUE

\* _sync_recursive lists both directories and builds the two dictionaries
ListLevel ==
    /\ pc = "running"
    /\ ~Top.listed
    /\ LET sp == Join(SourceRoot, Top.rel)
           dp == Join(DestinationRoot, Top.rel)
       IN \E sfault, dfault \in Faults :
            IF ~ListOk(fs, sp) \/ sfault
            THEN /\ ~dfault
                 /\ Raise("FileSynchronizationError",
                          <<Event("get_file_list", sp, <<>>, FALSE)>>)
            ELSE IF ~(ListOk(fs, dp) /\ ~dfault) /\ ~DestinationListingCaught
            THEN Raise("FileSynchronizationError",
                       <<Event("get_file_list", sp, <<>>, TRUE),
                         Event("get_file_list", dp, <<>>, FALSE)>>)
            ELSE LET dok == ListOk(fs, dp) /\ ~dfault
                     listed == [Top EXCEPT !.listed = TRUE,
                                           !.src = ListEntries(fs, sp),
                                           !.dst = IF dok THEN ListEntries(fs, dp) ELSE {}]
                     frame == [listed EXCEPT !.phases = Phases(options),
                                             !.todo = LoopEntries(listed, Phases(options)[1])]
                 IN Continue(fs, ReplaceTop(frame),
                             <<Event("get_file_list", sp, <<>>, TRUE),
                               Event("get_file_list", dp, <<>>, dok)>>, clock)

\* one iteration of the deletion loop that reaches delete_file; os.listdir
\* returns the entries in arbitrary order, so any remaining entry may come next
DeleteExtraneous ==
    /\ pc = "running"
    /\ Top.listed /\ Top.asking = {}
    /\ Top.phases[1] = "delete"
    /\ \E name \in Top.todo, fault \in Faults :
         LET path == Join(Join(DestinationRoot, Top.rel), <<name>>) IN
         IF ~DeleteOk(fs, path) \/ fault
         THEN Raise("FileSynchronizationError",
                    <<Event("delete_file", path, <<>>, FALSE)>>)
         ELSE Continue(DeleteFile(fs, path),
                       ReplaceTop([Top EXCEPT !.todo = @ \ {name}]),
                       <<Event("delete_file", path, <<>>, TRUE)>>, clock)

ConflictResolutionRenameUnlessPrompt(opts) ==
    IF "conflict_resolution" \in DOMAIN opts /\ opts["conflict_resolution"] = "prompt"
    THEN "prompt" ELSE "rename"

\* self.options.get("conflict_resolution", "prompt")
ConflictResolution(opts) == Get(opts, "conflict_resolution", "prompt")

\* one iteration of the loop over the source entries (any remaining entry may
\* come next); `now` is what datetime.now() returns if the iteration reads it
SyncEntry ==
    /\ pc = "running"
    /\ Top.listed /\ Top.asking = {}
    /\ Top.phases[1] = "sync"
    /\ \E name \in Top.todo, rfault, fault \in Faults, now \in clock..MaxClock :
         LET source_entry_path == Join(Join(SourceRoot, Top.rel), <<name>>)
             relative_entry_path == Join(Top.rel, <<name>>)
             destination_entry_path == Join(DestinationRoot, relative_entry_path)
             rest == [Top EXCEPT !.todo = @ \ {name}]
             compared == Event("checksum", destination_entry_path, source_entry_path, TRUE)
             conflict == Event("conflict", destination_entry_path, source_entry_path, TRUE)
             policy == ConflictResolution(options)
         IN
         IF TypeOf(Top.src, name) = "file"
         THEN IF name \notin Names(Top.dst)
              THEN /\ ~rfault /\ now = clock
                   /\ Upload(source_entry_path, destination_entry_path,
                             ReplaceTop(rest), fault, <<>>, clock)
              ELSE IF \/ ~IsFile(fs, source_entry_path)
                      \/ ~IsFile(fs, destination_entry_path)
                      \/ rfault
                   THEN /\ ~fault /\ now = clock
                        /\ Raise("Exception",
                                 <<Event("checksum", destination_entry_path,
                                         source_entry_path, FALSE)>>)
                   ELSE IF ChecksumsDiffer(fs, source_entry_path, destination_entry_path)
                        THEN CASE policy = "prompt" ->
                                    /\ ~fault /\ now = clock
                                    /\ Continue(fs, ReplaceTop([Top EXCEPT !.asking = {name}]),
                                                <<compared, conflict>>, clock)
                               [] policy = "rename" ->
                                    Upload(source_entry_path,
                                           RenameConflictingFile(destination_entry_path, now),
                                           ReplaceTop(rest), fault, <<compared, conflict>>, now)
                               [] OTHER ->
                                    /\ ~fault /\ now = clock
                                    /\ Continue(fs, ReplaceTop(rest), <<compared, conflict>>, clock)
                        ELSE IF SourceNewer(fs, source_entry_path, destination_entry_path)
                             THEN /\ now = clock
                                  /\ Upload(source_entry_path, destination_entry_path,
                                            ReplaceTop(rest), fault, <<compared>>, clock)
                             ELSE /\ ~fault /\ now = clock
                                  /\ Continue(fs, ReplaceTop(rest), <<compared>>, clock)
         ELSE /\ ~rfault /\ now = clock
              /\ IF name \notin Names(Top.dst)
                 THEN IF ~MakeDirsOk(fs, destination_entry_path) \/ fault
                      THEN Raise("FileSynchronizationError",
                                 <<Event("create_folder", destination_entry_path, <<>>, FALSE)>>)
                      ELSE Continue(MakeDirs(fs, destination_entry_path),
                                    Append(ReplaceTop(rest), NewFrame(relative_entry_path)),
                                    <<Event("create_folder", destination_entry_path, <<>>, TRUE)>>,
                                    clock)
                 ELSE ~fault /\ Continue(fs, Append(ReplaceTop(rest),
                                                    NewFrame(relative_entry_path)), <<>>, clock)

\* _resolve_conflict_with_prompt reads one line from input()
Answers == {"s", "d", "c", "x"}
\* defective variant of PromptChoice: "d" is taken for the source as well
PromptChoiceSourceForD(answer) ==
    CASE answer \in {"s", "source", "d"} -> "source"
      [] answer \in {"destination"} -> "destination"
      [] answer \in {"c", "cancel"} -> "None"
      [] OTHER -> "again"
PromptChoice(answer) ==
    CASE answer \in {"s", "source"} -> "source"
      [] answer \in {"d", "destination"} -> "destination"
      [] answer \in {"c", "cancel"} -> "None"
      [] OTHER -> "again"

AnswerPrompt ==
    /\ pc = "running"
    /\ Top.listed /\ Top.asking # {}
    /\ \E name \in Top.asking, answer \in Answers, fault \in Faults :
         LET source_entry_path == Join(Join(SourceRoot, Top.rel), <<name>>)
             destination_entry_path == Join(Join(DestinationRoot, Top.rel), <<name>>)
             rest == [Top EXCEPT !.asking = {}, !.todo = @ \ {name}, !.choice = ""]
             choice == PromptChoice(answer)
             answered == InputEvent(destination_entry_path, source_entry_path, answer)
         IN CASE choice = "again" ->
                    \* "Invalid choice.": the loop goes round and asks again
                    /\ ~fault
                    /\ Continue(fs, ReplaceTop([Top EXCEPT !.choice = answer]), <<>>, clock)
              [] choice = "source" ->
                    Upload(source_entry_path, destination_entry_path,
                           ReplaceTop(rest), fault, <<answered>>, clock)
              [] OTHER -> ~fault /\ Continue(fs, ReplaceTop(rest), <<answered>>, clock)

Next ==
    \/ Execute
    \/ ListLevel
    \/ DeleteExtraneous
    \/ SyncEntry
    \/ AnswerPrompt

Spec == Init /\ [][Next]_vars

\* a pass whose connector calls may fail, run by a thread that keeps running:
\* once execute is entered the interpreter goes on to the next statement of
\* _sync_recursive; nothing obliges the user at the prompt to answer
LiveInit ==
    /\ Init
    /\ faulty
    /\ DOMAIN options # {} /\ options["delete"]
    /\ Exists(fs, DestinationRoot)
    /\ IsFile(fs, SrcOf(<<NameA>>)) /\ IsDir(fs, SrcOf(<<NameB>>))
    /\ IsFile(fs, SrcOf(<<NameB, NameA>>)) /\ fs[SrcOf(<<NameB, NameA>>)].content = 1
    /\ IsFile(fs, DstOf(<<NameA>>))
LiveSpec == LiveInit /\ [][Next]_vars /\ WF_vars(ListLevel \/ DeleteExtraneous \/ SyncEntry)

-----------------------------------------------------------------------------
(* Scheduler *)

\* how many times start is called in a behaviour, and how many tasks there are
MaxStarts == 2
MaxTasks == 2

\* what the loop over the source entries meets in a task's pass: an entry to
\* upload, or a file whose checksums differ; the policy of the task is prompt
EntryLists == {<<"upload">>, <<"conflict", "upload">>}
TaskLists == UNION {[1..n -> EntryLists] : n \in 1..MaxTasks}

\* no pass outside the scheduler: the task is run by the scheduler thread only
NoPass ==
    /\ fs = <<>> /\ fs0 = <<>>
    /\ options = <<>>
    /\ clock = 0
    /\ pc = "idle"
    /\ stack = <<>>
    /\ log = <<>>
    /\ runs = 0
    /\ outcomes = <<>>
    /\ faulty = FALSE
    /\ connector = "None"

\* Scheduler.__init__, with the tasks main.py added and the console it runs on
SchedInit ==
    /\ NoPass
    /\ tasks \in TaskLists
    /\ stdin \in {"attended", "silent", "closed"}
    /\ scheduler_thread = 0
    /\ stop_event = FALSE
    /\ threads = <<>>
    /\ jobs = <<>>
    /\ caller = "idle"
    /\ stopped = {}
    /\ NoConnectorCall
    /\ NoTaskManager

\* a thread of _run_scheduler: where it is, the due jobs of the round that are
\* still to run (the first is the one running), the entries the pass has left
Thread(at, queue, left) == [at |-> at, queue |-> queue, left |-> left]
SetThread(t, th) == [threads EXCEPT ![t] = th]

\* schedule_tasks: one more job per task, appended to the module-wide schedule
ScheduleTasks(js) == js \o [i \in 1..Len(tasks) |-> i]

\* start(): schedule_tasks(), then a new thread that replaces scheduler_thread
Start ==
    /\ caller = "idle"
    /\ Len(threads) < MaxStarts
    /\ jobs' = ScheduleTasks(jobs)
    /\ threads' = Append(threads, Thread("check", <<>>, <<>>))
    /\ scheduler_thread' = Len(threads) + 1
    /\ UNCHANGED <<tasks, stdin, stop_event, caller, stopped, passVars, connVars, taskVars>>

\* stop(): nothing to do without a thread, else set the event and join
Stop ==
    /\ caller = "idle"
    /\ threads # <<>>
    /\ IF scheduler_thread # 0
       THEN stop_event' = TRUE /\ caller' = "join"
       ELSE UNCHANGED <<stop_event, caller>>
    /\ UNCHANGED <<tasks, stdin, scheduler_thread, threads, jobs, stopped, passVars, connVars, taskVars>>

\* scheduler_thread.join() returns once that thread has ended
Joined(t) == threads[t].at = "done"

\* the rest of stop(): scheduler_thread = None, "Scheduler stopped."
StopReturns ==
    /\ caller = "join"
    /\ Joined(scheduler_thread)
    /\ scheduler_thread' = 0
    /\ caller' = "idle"
    /\ stopped' = stopped \cup (1..Len(threads))
    /\ UNCHANGED <<tasks, stdin, stop_event, threads, jobs, passVars, connVars, taskVars>>

\* the thread goes on to the next due job of the round, or to sleep
NextJob(queue) ==
    IF queue = <<>> THEN Thread("sleep", <<>>, <<>>)
    ELSE Thread("job", queue, tasks[Head(queue)])

\* while not stop_event.is_set(): run_pending() takes the jobs that are due
\* (none, or all of them) and runs them one after the other
RunScheduler ==
    \E t \in 1..Len(threads) :
        /\ threads[t].at = "check"
        /\ IF stop_event
           THEN threads' = SetThread(t, Thread("done", <<>>, <<>>))
           ELSE \E due \in {<<>>, jobs} : threads' = SetThread(t, NextJob(due))
        /\ UNCHANGED <<tasks, stdin, scheduler_thread, stop_event, jobs, caller,
                       stopped, passVars, connVars, taskVars>>

\* task.execute: the pass takes up its next entry; a conflict calls input(); a
\* pass with no entry left returns and the round goes on
Execution ==
    \E t \in 1..Len(threads) :
        /\ threads[t].at = "job"
        /\ LET th == threads[t] IN
           threads' = SetThread(t,
              IF th.left = <<>> THEN NextJob(Tail(th.queue))
              ELSE IF Head(th.left) = "conflict"
                   THEN Thread("input", th.queue, th.left)
                   ELSE Thread("job", th.queue, Tail(th.left)))
        /\ UNCHANGED <<tasks, stdin, scheduler_thread, stop_event, jobs, caller,
                       stopped, passVars, connVars, taskVars>>

\* input() in _resolve_conflict_with_prompt: a line typed by whoever attends
\* the console, EOFError on a closed stdin (caught by execute, which ends the
\* pass), and no return at all on a console nobody attends
Input ==
    \E t \in 1..Len(threads) :
        /\ threads[t].at = "input"
        /\ stdin # "silent"
        /\ LET th == threads[t] IN
           threads' = SetThread(t,
              IF stdin = "closed" THEN NextJob(Tail(th.queue))
              ELSE Thread("job", th.queue, Tail(th.left)))
        /\ UNCHANGED <<tasks, stdin, scheduler_thread, stop_event, jobs, caller,
                       stopped, passVars, connVars, taskVars>>

\* time.sleep(1) is over
Sleep ==
    \E t \in 1..Len(threads) :
        /\ threads[t].at = "sleep"
        /\ threads' = SetThread(t, Thread("check", <<>>, <<>>))
        /\ UNCHANGED <<tasks, stdin, scheduler_thread, stop_event, jobs, caller,
                       stopped, passVars, connVars, taskVars>>

SchedNext ==
    \/ Start
    \/ Stop
    \/ StopReturns
    \/ RunScheduler
    \/ Execution
    \/ Input
    \/ Sleep

SchedSpec == SchedInit /\ [][SchedNext]_vars

-----------------------------------------------------------------------------
(* The connectors, called directly *)

\* how many connector calls a behaviour makes
MaxCalls == 2

\* the paths the calls are made on: a folder below the root, an entry in it
ConnPaths == {DstOf(<<NameB>>), DstOf(<<NameB, NameA>>)}

\* the local trees a call may find
Disks ==
    LET root == [q \in {DestinationRoot} |-> Folder] IN
    {root,
     Put(root, DstOf(<<NameB>>), Folder),
     Put(root, DstOf(<<NameB>>), File(1, 1)),
     Put(Put(root, DstOf(<<NameB>>), Folder), DstOf(<<NameB, NameA>>), File(1, 1))}

\* a Drive item; parent 0 is Drive's "root"
Item(id, name, parent, kind) == [id |-> id, name |-> name, parent |-> parent, kind |-> kind]
Drives ==
    LET root == {Item(1, DestinationRoot[1], 0, "folder")} IN
    {root,
     root \cup {Item(2, NameB, 1, "folder")},
     root \cup {Item(2, NameB, 1, "file")},
     root \cup {Item(2, NameB, 1, "folder"), Item(3, NameA, 2, "file")}}

ConnInit ==
    /\ NoPass
    /\ NoScheduler
    /\ NoTaskManager
    /\ disk \in Disks
    /\ drive \in Drives
    /\ calls = <<>>

\* _get_folder_id_by_path walks the path from "root" and takes a folder of the
\* right name at each step (the first one the API returns, which may be any)
RECURSIVE FolderIds(_, _)
FolderIds(items, path) ==
    IF path = <<>> THEN {0}
    ELSE {i.id : i \in {j \in items : /\ j.kind = "folder"
                                      /\ j.name = BaseName(path)
                                      /\ j.parent \in FolderIds(items, Parent(path))}}

\* _get_file_id_by_path: an item of that name, of any kind, in the parent folder
FileIds(items, path) ==
    {i.id : i \in {j \in items : /\ j.name = BaseName(path)
                                 /\ j.parent \in FolderIds(items, Parent(path))}}

\* files().delete removes the item and everything it contains
RECURSIVE Contained(_, _)
Contained(items, ids) ==
    LET more == ids \cup {i.id : i \in {j \in items : j.parent \in ids}}
    IN IF more = ids THEN ids ELSE Contained(items, more)
DriveDelete(items, id) == {i \in items : i.id \notin Contained(items, {id})}

\* files().create gives the new item an id of its own
NewId(items) ==
    LET ids == {i.id : i \in items} \cup {0}
    IN 1 + CHOOSE m \in ids : \A n \in ids : n <= m
DriveCreate(items, parent, name) ==
    items \cup {Item(NewId(items), name, parent, "folder")}

\* what a call found at its path, whether it returned, and what it left
Call(class, op, path, existed, wasFolder, ok, unchanged, folders) ==
    [class |-> class, op |-> op, path |-> path, existed |-> existed,
     wasFolder |-> wasFolder, ok |-> ok, unchanged |-> unchanged, folders |-> folders]

LocalFolders(f, path) == IF IsDir(f, path) THEN 1 ELSE 0
DriveFolders(items, path) == Cardinality(FolderIds(items, path))

\* LocalFileConnector.delete_file(path)
LocalDeleteFile ==
    /\ Len(calls) < MaxCalls
    /\ \E path \in ConnPaths :
         LET ok == DeleteOk(disk, path)
             after == IF ok THEN DeleteFile(disk, path) ELSE disk
         IN /\ disk' = after
            /\ calls' = Append(calls,
                  Call("LocalFileConnector", "delete_file", path, Exists(disk, path),
                       IsDir(disk, path), ok, after = disk, LocalFolders(after, path)))
    /\ UNCHANGED <<drive, passVars, schedVars, taskVars>>

\* LocalFileConnector.create_folder(path)
LocalCreateFolder ==
    /\ Len(calls) < MaxCalls
    /\ \E path \in ConnPaths :
         LET ok == MakeDirsOk(disk, path)
             after == IF ok THEN MakeDirs(disk, path) ELSE disk
         IN /\ disk' = after
            /\ calls' = Append(calls,
                  Call("LocalFileConnector", "create_folder", path, Exists(disk, path),
                       IsDir(disk, path), ok, after = disk, LocalFolders(after, path)))
    /\ UNCHANGED <<drive, passVars, schedVars, taskVars>>

\* GoogleDriveConnector.delete_file(path)
DriveDeleteFile ==
    /\ Len(calls) < MaxCalls
    /\ \E path \in ConnPaths :
         LET ids == FileIds(drive, path) IN
         \E id \in IF ids = {} THEN {0} ELSE ids :
            LET ok == ids # {}
                after == IF ok THEN DriveDelete(drive, id) ELSE drive
            IN /\ drive' = after
               /\ calls' = Append(calls,
                     Call("GoogleDriveConnector", "delete_file", path, ids # {},
                          FolderIds(drive, path) # {}, ok, after = drive,
                          DriveFolders(after, path)))
    /\ UNCHANGED <<disk, passVars, schedVars, taskVars>>

\* GoogleDriveConnector.create_folder(path)
DriveCreateFolder ==
    /\ Len(calls) < MaxCalls
    /\ \E path \in ConnPaths :
         LET parents == FolderIds(drive, Parent(path)) IN
         \E parent \in IF parents = {} THEN {0} ELSE parents :
            LET ok == parents # {}
                after == IF ok THEN DriveCreate(drive, parent, BaseName(path)) ELSE drive
            IN /\ drive' = after
               /\ calls' = Append(calls,
                     Call("GoogleDriveConnector", "create_folder", path,
                          FileIds(drive, path) # {}, FolderIds(drive, path) # {}, ok,
                          after = drive, DriveFolders(after, path)))
    /\ UNCHANGED <<disk, passVars, schedVars, taskVars>>

ConnNext ==
    \/ LocalDeleteFile
    \/ LocalCreateFolder
    \/ DriveDeleteFile
    \/ DriveCreateFolder

ConnSpec == ConnInit /\ [][ConnNext]_vars

-----------------------------------------------------------------------------
(* Vocabulary of the properties *)

Mutating == {"upload_file", "delete_file", "create_folder"}
Calls(op) == {i \in 1..Len(log) : log[i].op = op}

\* the options as the task was configured
DeleteOption == Get(options, "delete", FALSE)
PolicyOption == Get(options, "conflict_resolution", "prompt")

\* a path relative to its root
Rel(p) == SubSeq(p, 2, Len(p))

Below(f, root) == {q \in DOMAIN f : IsUnder(q, root) /\ q # root}

\* what a tree holds: for each relative path its kind and its bytes
Tree(f, root) ==
    [rel \in {Rel(q) : q \in Below(f, root)} |->
        <<f[Join(root, rel)].type, f[Join(root, rel)].content>>]

ProperPrefix(d, l) == Len(l) > Len(d) /\ SubSeq(l, 1, Len(d)) = d

\* no name is a file on one side and a folder on the other
NoTypeMismatch(f) ==
    \A q \in Below(f, SourceRoot) :
        Exists(f, DstOf(Rel(q))) => f[DstOf(Rel(q))].type = f[q].type

-----------------------------------------------------------------------------
(* C1 *)

\* C1 (as claimed): when execute has run twice in a row on an unchanged source
\* (the first pass having returned normally, under a policy that asks nobody),
\* the second pass makes no upload_file, delete_file or create_folder call.
C1_SecondPassMakesNoCall ==
    (pc = "idle" /\ runs = 2 /\ outcomes[1] = "returned" /\ PolicyOption # "prompt")
        => \A i \in 1..Len(log) : log[i].op \notin Mutating

-----------------------------------------------------------------------------
(* C2 *)

\* C2: from an existing, empty destination root, one pass of a task that has a
\* connector, with default options, whose connector calls all succeed leaves the destination tree equal to the
\* source tree, with one upload_file per source file and one create_folder per
\* source folder.
C2_MirrorsIntoEmptyDestination ==
    (/\ pc = "idle" /\ runs = 1
     /\ connector # "None"
     /\ DOMAIN options = {}
     /\ Exists(fs0, DestinationRoot) /\ Children(fs0, DestinationRoot) = {}
     /\ \A i \in 1..Len(log) : log[i].ok)
        => /\ Tree(fs, DestinationRoot) = Tree(fs, SourceRoot)
           /\ \A p \in Below(fs, SourceRoot) :
                IF fs[p].type = "file"
                THEN Cardinality({i \in Calls("upload_file") :
                                     log[i].arg = p /\ log[i].path = DstOf(Rel(p))}) = 1
                ELSE Cardinality({i \in Calls("create_folder") :
                                     log[i].path = DstOf(Rel(p))}) = 1

\* a finished default pass that mirrored two files, one of them in a subfolder
C2_Witness ==
    /\ pc = "idle" /\ runs = 1
    /\ connector # "None"
    /\ DOMAIN options = {}
    /\ Exists(fs0, DestinationRoot) /\ Children(fs0, DestinationRoot) = {}
    /\ \A i \in 1..Len(log) : log[i].ok
    /\ IsFile(fs, SrcOf(<<NameA>>)) /\ IsFile(fs, SrcOf(<<NameB, NameA>>))
    /\ IsFile(fs, DstOf(<<NameB, NameA>>))

-----------------------------------------------------------------------------
(* C3 *)

\* C3: no delete_file call of a level comes after an upload_file or
\* create_folder call of that level, nor after any operation in a subfolder of
\* that level.
C3_DeletionPrecedesAddition ==
    \A i, j \in 1..Len(log) :
        (i < j /\ log[j].op = "delete_file")
            => ~ \/ (log[i].op \in {"upload_file", "create_folder"}
                        /\ log[i].level = log[j].level)
                 \/ ProperPrefix(log[j].level, log[i].level)

\* a level that deleted, then uploaded, and whose subfolder was then worked on
C3_Witness ==
    \E i, j, k \in 1..Len(log) :
        /\ i < j /\ j < k
        /\ log[i].op = "delete_file" /\ log[i].ok
        /\ log[j].op = "upload_file" /\ log[j].level = log[i].level
        /\ log[k].op \in Mutating /\ ProperPrefix(log[i].level, log[k].level)

-----------------------------------------------------------------------------
(* C4 *)

\* C4: with the delete option true, once the pass is over and no delete_file
\* call failed, every entry that the destination listing of a visited level
\* showed and the source listing did not has been removed by a successful
\* delete_file at that level (it is absent unless a later upload wrote it anew).
C4_ExtraneousDeleted ==
    (/\ pc = "idle" /\ runs >= 1
     /\ DeleteOption
     /\ \A i \in Calls("delete_file") : log[i].ok)
        => \A i \in 1..(Len(log) - 1) :
             (log[i].op = "get_file_list" /\ log[i].ok /\ IsUnder(log[i].path, SourceRoot))
                => \A e \in log[i + 1].seen :
                     e.name \notin Names(log[i].seen)
                        => \E j \in Calls("delete_file") :
                             /\ j > i + 1
                             /\ log[j].ok
                             /\ log[j].level = log[i].level
                             /\ log[j].path = Join(log[i + 1].path, <<e.name>>)
                             /\ Exists(fs, log[j].path)
                                   => \E k \in Calls("upload_file") :
                                        k > j /\ log[k].ok /\ log[k].path = log[j].path

\* a finished pass that removed an extraneous folder at the root and an
\* extraneous file one level down
C4_Witness ==
    /\ pc = "idle" /\ runs = 1 /\ DeleteOption
    /\ IsDir(fs0, DstOf(<<NameA>>)) /\ ~Exists(fs0, SrcOf(<<NameA>>))
    /\ IsFile(fs0, DstOf(<<NameB, NameA>>)) /\ IsDir(fs0, SrcOf(<<NameB>>))
    /\ ~Exists(fs0, SrcOf(<<NameB, NameA>>))
    /\ ~Exists(fs, DstOf(<<NameA>>)) /\ ~Exists(fs, DstOf(<<NameB, NameA>>))
    /\ Cardinality(Calls("delete_file")) = 2

-----------------------------------------------------------------------------
(* C5 *)

\* C5: with the delete option false or absent no delete_file call is made,
\* every path the destination held when the pass started is still there, and
\* on a healthy backend a pass over trees without a file/folder clash returns
\* normally whatever destination-only entries there are.
C5_NoDeletionWithoutOption ==
    ~DeleteOption
        => /\ Calls("delete_file") = {}
           /\ \A p \in DOMAIN fs0 : IsUnder(p, DestinationRoot) => Exists(fs, p)
           /\ (/\ pc = "idle" /\ runs >= 1 /\ ~faulty
               /\ Exists(fs0, DestinationRoot) /\ NoTypeMismatch(fs0))
                 => outcomes[runs] = "returned"

\* a pass without the delete key that met destination-only entries and
\* returned with them in place
C5_Witness ==
    /\ pc = "idle" /\ runs = 1 /\ "delete" \notin DOMAIN options
    /\ outcomes[1] = "returned"
    /\ IsFile(fs0, DstOf(<<NameA>>)) /\ ~Exists(fs0, SrcOf(<<NameA>>))
    /\ IsDir(fs0, DstOf(<<NameB>>)) /\ IsFile(fs0, DstOf(<<NameB, NameA>>))
    /\ IsFile(fs0, SrcOf(<<NameB>>)) = FALSE /\ ~Exists(fs0, SrcOf(<<NameB>>))
    /\ IsFile(fs, DstOf(<<NameA>>)) /\ IsFile(fs, DstOf(<<NameB, NameA>>))

-----------------------------------------------------------------------------
(* C6 *)

\* the events a step appends to the log of the running pass
AddedBy(n) == n > Len(log) /\ n <= Len(log')

\* C6: in every step of a pass, a file found on both sides and read on both
\* sides enters the conflict branch if and only if the bytes of the two files
\* differ, and the conflict branch is entered in no other way; the
\* modification times play no part.
C6_ConflictIffContentsDiffer ==
    [][pc = "running" =>
         /\ \A n \in 1..Len(log') :
              (AddedBy(n) /\ log'[n].op = "checksum" /\ log'[n].ok)
                 => ((\E m \in 1..Len(log') :
                          AddedBy(m) /\ log'[m].op = "conflict" /\ log'[m].path = log'[n].path)
                       <=> fs[log'[n].arg].content # fs[log'[n].path].content)
         /\ \A m \in 1..Len(log') :
              (AddedBy(m) /\ log'[m].op = "conflict")
                 => \E n \in 1..Len(log') :
                       AddedBy(n) /\ log'[n].op = "checksum" /\ log'[n].ok
                          /\ log'[n].path = log'[m].path]_vars

\* a pass that compared two pairs of files with equal bytes, one whose source
\* is the older and one whose source is the newer, and met no conflict
C6_Witness ==
    /\ runs = 1
    /\ Calls("conflict") = {}
    /\ \E i, j \in Calls("checksum") :
         /\ log[i].ok /\ log[j].ok
         /\ fs0[log[i].arg].content = fs0[log[i].path].content
         /\ fs0[log[i].arg].mtime < fs0[log[i].path].mtime
         /\ fs0[log[j].arg].content = fs0[log[j].path].content
         /\ fs0[log[j].arg].mtime > fs0[log[j].path].mtime

-----------------------------------------------------------------------------
(* C7 *)

\* C7 (as claimed): after a pass with conflict policy PreferSource that
\* returned normally, every file that was on both sides with different bytes
\* holds the source's bytes at the destination.
C7_PreferSourceTakesSource ==
    (pc = "idle" /\ runs = 1 /\ PolicyOption = "PreferSource" /\ outcomes[1] = "returned")
        => \A q \in Below(fs0, SourceRoot) :
             (/\ IsFile(fs0, q) /\ IsFile(fs0, DstOf(Rel(q)))
              /\ fs0[q].content # fs0[DstOf(Rel(q))].content)
                => /\ IsFile(fs, DstOf(Rel(q)))
                   /\ fs[DstOf(Rel(q))].content = fs0[q].content

-----------------------------------------------------------------------------
(* C8 *)

\* C8 (as claimed): under the rename policy, an upload_file call whose target
\* is a generated name (not the plain destination path of its source) finds no
\* entry at that target.
C8_RenameTargetIsFresh ==
    PolicyOption = "rename"
        => \A i \in Calls("upload_file") :
             log[i].path # DstOf(Rel(log[i].arg)) => ~log[i].existed

-----------------------------------------------------------------------------
(* C9 *)

\* the paths at which a call of the current pass failed
FailedPaths == {log[k].path : k \in {n \in 1..Len(log) : ~log[n].ok}}

\* C9 (as claimed): when calls failed in a pass that started from an empty
\* destination, every source entry that is not at or below a path where a call
\* failed is at the destination, with the same kind and bytes, once the pass
\* is over.
C9_SiblingsStillSynced ==
    (/\ pc = "idle" /\ runs = 1
     /\ Exists(fs0, DestinationRoot) /\ Children(fs0, DestinationRoot) = {}
     /\ FailedPaths # {})
        => \A q \in Below(fs, SourceRoot) :
             (\A fp \in FailedPaths : ~IsUnder(q, fp) /\ ~IsUnder(DstOf(Rel(q)), fp))
                => /\ Exists(fs, DstOf(Rel(q)))
                   /\ fs[DstOf(Rel(q))].type = fs[q].type
                   /\ fs[DstOf(Rel(q))].content = fs[q].content

-----------------------------------------------------------------------------
(* C10 *)

\* the name is a file on one side and a folder on the other, at the root level
MismatchAt(f, n) ==
    /\ Exists(f, SrcOf(<<n>>)) /\ Exists(f, DstOf(<<n>>))
    /\ f[SrcOf(<<n>>)].type # f[DstOf(<<n>>)].type

\* C10 (as claimed): when a root-level name is a file on one side and a folder
\* on the other, the pass reports an error, leaves the destination entry and
\* everything beneath it as they were, does not list the source folder of that
\* name, and still brings over every other source entry of the level that the
\* destination lacked.
C10_TypeMismatchIsLocal ==
    (pc = "idle" /\ runs = 1 /\ ~faulty /\ Exists(fs0, DestinationRoot))
        => \A n \in {NameA, NameB} :
             MismatchAt(fs0, n)
                => /\ outcomes[1] # "returned"
                   /\ \A p \in DOMAIN fs \cup DOMAIN fs0 :
                        IsUnder(p, DstOf(<<n>>))
                           => Exists(fs, p) /\ Exists(fs0, p) /\ fs[p] = fs0[p]
                   /\ \A i \in Calls("get_file_list") : log[i].path # SrcOf(<<n>>)
                   /\ \A m \in {NameA, NameB} \ {n} :
                        (Exists(fs0, SrcOf(<<m>>)) /\ ~Exists(fs0, DstOf(<<m>>)))
                           => /\ Exists(fs, DstOf(<<m>>))
                              /\ fs[DstOf(<<m>>)].type = fs0[SrcOf(<<m>>)].type

-----------------------------------------------------------------------------
(* C11 *)

\* the failed listings of a destination directory that was not there
AbsentListings ==
    {i \in Calls("get_file_list") :
        ~log[i].ok /\ ~log[i].existed /\ IsUnder(log[i].path, DestinationRoot)}

\* C11: when the destination listing of a level fails because the directory
\* does not exist, the level is treated as having no destination entry and its
\* reconciliation goes on: the failure does not end the pass, nothing is
\* deleted or compared at that level, the next call brings over a source entry
\* of the level, and a pass that returns normally has brought over every one.
C11_AbsentDestinationIsEmpty ==
    \A i \in AbsentListings :
        /\ log[i].seen = {}
        /\ (i = Len(log) /\ pc = "idle")
              => outcomes[runs] = "returned" /\ log[i - 1].seen = {}
        /\ i < Len(log)
              => /\ log[i + 1].op \in {"upload_file", "create_folder"}
                 /\ log[i + 1].level = log[i].level
                 /\ \E e \in log[i - 1].seen :
                        log[i + 1].path = Join(log[i].path, <<e.name>>)
        /\ \A j \in 1..Len(log) :
              (j > i /\ log[j].level = log[i].level)
                 => log[j].op \in {"upload_file", "create_folder"}
        /\ (pc = "idle" /\ outcomes[runs] = "returned")
              => \A e \in log[i - 1].seen :
                    \E j \in 1..Len(log) :
                        /\ j > i /\ log[j].ok
                        /\ log[j].op = (IF e.type = "file" THEN "upload_file"
                                                          ELSE "create_folder")
                        /\ log[j].path = Join(log[i].path, <<e.name>>)

\* a pass that found no destination root, created a folder below it, uploaded
\* a file next to that folder and returned
C11_Witness ==
    /\ pc = "idle" /\ runs = 1 /\ outcomes[1] = "returned"
    /\ ~Exists(fs0, DestinationRoot)
    /\ \E i \in AbsentListings :
          /\ log[i].path = DestinationRoot
          /\ \E j, k \in 1..Len(log) :
                /\ i < j /\ j < k
                /\ log[j].op = "create_folder" /\ log[j].ok /\ log[j].level = <<>>
                /\ log[k].op = "upload_file" /\ log[k].ok /\ log[k].level = <<>>

-----------------------------------------------------------------------------
(* C12 *)

\* C12: no exception leaves execute, whatever the trees, the options and the
\* failures of the connector calls; when the task has no connector, execute
\* returns without a single connector call and leaves both trees alone.
C12_NoExceptionEscapes ==
    /\ pc # "crashed"
    /\ connector = "None"
          => /\ pc = "idle" /\ stack = <<>>
             /\ log = <<>>
             /\ fs = fs0
             /\ \A r \in 1..Len(outcomes) : outcomes[r] = "returned"

\* a pass stopped by an error that is not the connector's own (a file on one
\* side, a folder on the other), which execute caught
C12_Witness ==
    /\ pc = "idle" /\ runs = 1 /\ outcomes[1] = "Exception"
    /\ \E i \in Calls("checksum") : ~log[i].ok

\* execute was called on a task without a connector and returned
C12_WitnessNoConnector ==
    connector = "None" /\ runs = 2 /\ Len(outcomes) = 2

-----------------------------------------------------------------------------
(* C13 *)

ConnectorOps == Mutating \cup {"get_file_list"}

\* C13 (as claimed): under conflict policy Abort, no connector operation is
\* issued after the first conflict of the pass.
C13_AbortStopsAtFirstConflict ==
    PolicyOption = "Abort"
        => \A i, j \in 1..Len(log) :
             (i < j /\ log[i].op = "conflict") => log[j].op \notin ConnectorOps

-----------------------------------------------------------------------------
(* C20 *)

\* C20: in every step of a pass that compared two files and found their bytes
\* equal, the source is uploaded over the destination if and only if the
\* source's modification time is strictly greater; otherwise the step makes no
\* connector call and changes no tree.
C20_EqualContentUploadsIffNewer ==
    [][pc = "running" =>
         \A n \in 1..Len(log') :
            (/\ AddedBy(n) /\ log'[n].op = "checksum" /\ log'[n].ok
             /\ fs[log'[n].arg].content = fs[log'[n].path].content)
               => IF fs[log'[n].arg].mtime > fs[log'[n].path].mtime
                  THEN \E m \in 1..Len(log') :
                          /\ AddedBy(m) /\ log'[m].op = "upload_file"
                          /\ log'[m].path = log'[n].path
                          /\ log'[m].arg = log'[n].arg
                  ELSE /\ \A m \in 1..Len(log') :
                             AddedBy(m) => log'[m].op \notin ConnectorOps
                       /\ fs' = fs]_vars

\* a pass that compared a pair with equal bytes and equal times and left it
\* alone, and a pair with equal bytes and a newer source and uploaded it
C20_Witness ==
    /\ runs = 1
    /\ \E i, j \in Calls("checksum") :
         /\ log[i].ok /\ log[j].ok
         /\ fs0[log[i].arg].content = fs0[log[i].path].content
         /\ fs0[log[i].arg].mtime = fs0[log[i].path].mtime
         /\ \A k \in Calls("upload_file") : log[k].path # log[i].path
         /\ fs0[log[j].arg].content = fs0[log[j].path].content
         /\ fs0[log[j].arg].mtime > fs0[log[j].path].mtime
         /\ \E k \in Calls("upload_file") :
                k > j /\ log[k].ok /\ log[k].path = log[j].path

-----------------------------------------------------------------------------
(* C17 *)

\* the lines a step adds to the record of the pass: one after each connector
\* call that changed the destination and returned
Recorded ==
    {Printed(log'[n]) : n \in {k \in 1..Len(log') :
                                  AddedBy(k) /\ log'[k].ok /\ log'[k].op \in Mutating}}

\* the paths a step wrote, created or removed
Changed ==
    {p \in DOMAIN fs \cup DOMAIN fs' :
        \/ Exists(fs, p) # Exists(fs', p)
        \/ Exists(fs, p) /\ Exists(fs', p) /\ fs[p] # fs'[p]}

\* C17 (as claimed): in every step of a pass, each file written is recorded as
\* uploaded with its path, each folder created as folder created with its
\* path, each removal as deleted with the path removed (the entries beneath a
\* removed folder go with it); a line recorded as uploaded names a path that
\* now holds the source's bytes, a line recorded as deleted a path that was
\* there and is gone, a line recorded as folder created a folder that was not
\* there before.
C17_RecordIsFaithful ==
    [][pc = "running" =>
         /\ \A p \in Changed :
               IF Exists(fs', p)
               THEN \E r \in Recorded :
                       /\ r.path = p
                       /\ r.kind = (IF IsDir(fs', p) THEN "folder created" ELSE "uploaded")
               ELSE \E r \in Recorded : r.kind = "deleted" /\ IsUnder(p, r.path)
         /\ \A r \in Recorded :
               CASE r.kind = "uploaded" ->
                      IsFile(fs', r.path) /\ fs'[r.path].content = fs[r.source].content
                 [] r.kind = "deleted" -> Exists(fs, r.path) /\ ~Exists(fs', r.path)
                 [] r.kind = "folder created" -> ~Exists(fs, r.path) /\ IsDir(fs', r.path)]_vars

-----------------------------------------------------------------------------
(* C18 *)

\* the events with which the second loop takes up the source file q: the
\* comparison when the destination listing had the name, the upload otherwise
EntryEvents(q) ==
    {i \in 1..Len(log) :
        \/ log[i].op = "checksum" /\ log[i].arg = q
        \/ /\ log[i].op = "upload_file" /\ log[i].arg = q
           /\ ~ \E j \in 1..(i - 1) : log[j].op = "checksum" /\ log[j].arg = q}

\* the listings of the source directory d, and the creations of its counterpart
Listings(d) == {i \in Calls("get_file_list") : log[i].path = d}
Creations(d) == {i \in Calls("create_folder") : log[i].path = DstOf(Rel(d))}

\* nothing is listed or taken up twice, and a pass that returned normally has
\* listed every source directory and taken up every source entry
ExactlyOnce ==
    /\ \A q \in Below(fs, SourceRoot) \cup {SourceRoot} :
          IF IsDir(fs, q)
          THEN Cardinality(Listings(q)) <= 1 /\ Cardinality(Creations(q)) <= 1
          ELSE Cardinality(EntryEvents(q)) <= 1
    /\ (pc = "idle" /\ runs >= 1 /\ outcomes[runs] = "returned")
          => \A q \in Below(fs, SourceRoot) \cup {SourceRoot} :
                IF IsDir(fs, q)
                THEN Cardinality(Listings(q)) = 1
                ELSE Cardinality(EntryEvents(q)) = 1

\* C18: with a conflict policy that asks nobody a running pass comes to an end,
\* no source directory is listed twice and no source entry handled twice, and
\* when the pass has returned without error every source directory was listed
\* exactly once and every source entry handled exactly once.
C18_Terminates ==
    /\ []ExactlyOnce
    /\ (pc = "running" /\ PolicyOption # "prompt") ~> (pc = "idle")

\* a pass under the rename policy over a source with two files and a folder
\* that compared, uploaded, descended and returned
C18_Witness ==
    /\ pc = "idle" /\ runs = 1 /\ outcomes[1] = "returned"
    /\ PolicyOption = "rename"
    /\ IsFile(fs, SrcOf(<<NameA>>)) /\ IsFile(fs, SrcOf(<<NameB, NameA>>))
    /\ Cardinality(Calls("get_file_list")) = 4
    /\ Calls("checksum") # {} /\ Calls("conflict") # {}

-----------------------------------------------------------------------------
(* C14 *)

\* C14 (as claimed): a pass run by the scheduler on a console nobody attends
\* never waits for a decision: no scheduler thread sits in input().
C14_SchedulerPassNeverWaits ==
    stdin # "attended" => \A t \in 1..Len(threads) : threads[t].at # "input"

-----------------------------------------------------------------------------
(* C19 *)

\* C19 (as claimed): once stop has returned, no thread that the scheduler had
\* started before is inside a task execution, be it one that was in flight
\* during the stop call or one started afterwards.
C19_StopWaitsForExecution ==
    \A t \in stopped : threads[t].at \notin {"job", "input"}

-----------------------------------------------------------------------------
(* C15 *)

\* C15 (as claimed): a delete_file call on a path that is not there returns
\* without error and leaves the backend as it was.
C15_DeleteIsIdempotent ==
    \A n \in 1..Len(calls) :
        (calls[n].op = "delete_file" /\ ~calls[n].existed)
            => calls[n].ok /\ calls[n].unchanged

-----------------------------------------------------------------------------
(* C16 *)

\* C16 (as claimed): a create_folder call on a path that is already a folder
\* returns without error, leaves the backend as it was, and there is exactly
\* one folder at that path afterwards.
C16_CreateFolderIsIdempotent ==
    \A n \in 1..Len(calls) :
        (calls[n].op = "create_folder" /\ calls[n].wasFolder)
            => calls[n].ok /\ calls[n].unchanged /\ calls[n].folders = 1

-----------------------------------------------------------------------------
(* C21 *)

\* the prompt is open on the entry n of the current level
AskingFor(st, n) == st # <<>> /\ st[Len(st)].asking = {n}

\* the events a step adds, in order
Added == SubSeq(log', Len(log) + 1, Len(log'))

\* C21: while the prompt for a conflict is open, every step of the pass is an
\* answer to it, so no other entry is taken up before the decision. A line
\* that is no valid answer leaves the question open and performs nothing.
\* 's' uploads the source file over the destination path, and a call that
\* returned left the source's bytes there. 'd' and 'c' make no connector call
\* and leave every tree as it was.
C21_PromptDecisionIsApplied ==
    [][(pc = "running" /\ stack # <<>> /\ Top.asking # {}) =>
         \E n \in Top.asking :
            LET src == Join(SrcOf(Top.rel), <<n>>)
                dst == Join(DstOf(Top.rel), <<n>>)
            IN \/ /\ AskingFor(stack', n)
                  /\ Len(stack') = Len(stack)
                  /\ stack'[Len(stack)].todo = Top.todo
                  /\ stack'[Len(stack)].choice \notin {"s", "d", "c"}
                  /\ Added = <<>> /\ fs' = fs /\ pc' = pc
               \/ /\ Added # <<>>
                  /\ Added[1].op = "input" /\ Added[1].path = dst
                  /\ ~AskingFor(stack', n)
                  /\ IF Added[1].line = "s"
                     THEN /\ Len(Added) = 2
                          /\ Added[2].op = "upload_file"
                          /\ Added[2].path = dst /\ Added[2].arg = src
                          /\ IF Added[2].ok
                             THEN /\ IsFile(fs', dst)
                                  /\ fs'[dst].content = fs[src].content
                                  /\ \A q \in DOMAIN fs \cup DOMAIN fs' :
                                        q # dst => Exists(fs, q) /\ Exists(fs', q)
                                                     /\ fs'[q] = fs[q]
                             ELSE fs' = fs
                     ELSE /\ Added[1].line \in {"d", "c"}
                          /\ Len(Added) = 1
                          /\ fs' = fs]_vars

\* a pass in which one conflict was answered 's' and uploaded and another was
\* answered 'd' and left the destination file as it was
C21_Witness ==
    /\ runs = 1 /\ PolicyOption = "prompt"
    /\ \E i, j \in Calls("input") :
          /\ log[i].line = "s" /\ log[i + 1].op = "upload_file" /\ log[i + 1].ok
          /\ log[j].line = "d"
          /\ fs[log[j].path] = fs0[log[j].path]
          /\ fs[log[i].path].content = fs0[log[i].arg].content

-----------------------------------------------------------------------------
(* C22 *)

\* the name n with one more conflict marker, stamped t, before its extension
Marked(n, t) == <<n[1], Append(n[2], t), n[3]>>

\* C22: under the rename policy a step that met a conflict at a destination
\* path calls upload_file once, on a path of the same directory whose name is
\* the base name, then the conflict marker with the time read in the step,
\* then the extension; when the call returned, that path holds the source's bytes and
\* the file at the conflicting path is as it was.
C22_RenameKeepsBoth ==
    [][(pc = "running" /\ PolicyOption = "rename") =>
         \A n \in 1..Len(Added) :
            Added[n].op = "conflict"
               => \E t \in clock..MaxClock :
                     LET dst == Added[n].path
                         src == Added[n].arg
                         new == Join(Parent(dst), <<Marked(BaseName(dst), t)>>)
                     IN /\ Len(Added) = n + 1
                        /\ Added[n + 1].op = "upload_file"
                        /\ Added[n + 1].path = new /\ Added[n + 1].arg = src
                        /\ new # dst
                        /\ IsFile(fs', dst) /\ fs'[dst] = fs[dst]
                        /\ Added[n + 1].ok
                              => /\ t = clock'
                                 /\ IsFile(fs', new)
                                 /\ fs'[new].content = fs[src].content]_vars

\* a finished rename pass after which the conflicting destination file still
\* holds its own bytes and the marked file next to it holds the source's
C22_Witness ==
    /\ pc = "idle" /\ runs = 1 /\ PolicyOption = "rename" /\ outcomes[1] = "returned"
    /\ \E i \in Calls("conflict") :
          /\ log[i + 1].op = "upload_file" /\ log[i + 1].ok
          /\ Parent(log[i + 1].path) = Parent(log[i].path)
          /\ fs[log[i].path] = fs0[log[i].path]
          /\ fs[log[i + 1].path].content = fs0[log[i].arg].content
          /\ fs[log[i + 1].path].content # fs[log[i].path].content

-----------------------------------------------------------------------------
(* C23 *)

\* C23 (as claimed): whenever a step calls upload_file, the parent of the
\* target path is a folder of the destination at that moment.
C23_ParentExistsAtUpload ==
    [][pc = "running" =>
         \A n \in 1..Len(Added) :
            Added[n].op = "upload_file" => IsDir(fs, Parent(Added[n].path))]_vars

-----------------------------------------------------------------------------
(* C24 *)

\* C24: within one pass no connector operation is invoked twice on the same
\* path, whether the first call returned or failed.
C24_NoRetry ==
    \A i, j \in 1..Len(log) :
        (i < j /\ log[i].op \in ConnectorOps /\ log[j].op = log[i].op)
            => log[j].path # log[i].path

\* a pass that went on after a failed destination listing, made further
\* calls, one of which failed and ended it
C24_Witness ==
    /\ pc = "idle" /\ runs = 1 /\ outcomes[1] = "FileSynchronizationError"
    /\ \E i, j \in 1..Len(log) :
          /\ i < j
          /\ log[i].op = "get_file_list" /\ ~log[i].ok
          /\ log[j].op \in Mutating /\ ~log[j].ok
          /\ \E k \in 1..Len(log) : i < k /\ k < j /\ log[k].op \in Mutating /\ log[k].ok

-----------------------------------------------------------------------------
(* C26 *)

\* C26: every delete_file, upload_file and create_folder call of a pass is made
\* on a path under the destination root, and the source tree is at every
\* moment of the pass what it was when the pass began.
C26_SourceUntouched ==
    /\ \A i \in 1..Len(log) :
          log[i].op \in Mutating
             => IsUnder(log[i].path, DestinationRoot) /\ ~IsUnder(log[i].path, SourceRoot)
    /\ \A p \in DOMAIN fs \cup DOMAIN fs0 :
          IsUnder(p, SourceRoot) => Exists(fs, p) /\ Exists(fs0, p) /\ fs[p] = fs0[p]

\* a finished pass that deleted, uploaded and created a folder at the
\* destination
C26_Witness ==
    /\ pc = "idle" /\ runs = 1 /\ outcomes[1] = "returned"
    /\ \E i \in Calls("delete_file") : log[i].ok
    /\ \E i \in Calls("upload_file") : log[i].ok
    /\ \E i \in Calls("create_folder") : log[i].ok
    /\ Below(fs, DestinationRoot) # Below(fs0, DestinationRoot)

-----------------------------------------------------------------------------
(* C27 *)

\* the names of the entries of a directory
NamesIn(f, d) == {BaseName(q) : q \in Children(f, d)}

\* C27 (as claimed): after a pass with the delete option true and policy prompt
\* or rename that returned without error, every directory of the source tree
\* has the same entry names as its counterpart at the destination.
C27_SameNamesAfterDeletePass ==
    (/\ pc = "idle" /\ runs >= 1 /\ outcomes[runs] = "returned"
     /\ connector # "None"
     /\ DeleteOption /\ PolicyOption \in {"prompt", "rename"})
        => \A d \in Below(fs, SourceRoot) \cup {SourceRoot} :
              IsDir(fs, d) => NamesIn(fs, DstOf(Rel(d))) = NamesIn(fs, d)

-----------------------------------------------------------------------------
(* C28 *)

\* the threads whose loop has not ended, and those inside a task execution
Alive == {t \in 1..Len(threads) : threads[t].at # "done"}
Executing == {t \in 1..Len(threads) : threads[t].at \in {"job", "input"}}

\* C28 (as claimed): whatever start and stop calls were made, at most one
\* scheduler thread is running and at most one task execution is in progress.
C28_PassesNeverOverlap ==
    Cardinality(Alive) <= 1 /\ Cardinality(Executing) <= 1

-----------------------------------------------------------------------------
(* C29 *)

\* C29 (as claimed): however often start was called, the schedule holds one
\* job per task, and the thread of the latest start does not end before the
\* next stop call.
C29_RestartKeepsRunning ==
    /\ threads # <<>> => Len(jobs) = Len(tasks)
    /\ (scheduler_thread # 0 /\ caller = "idle")
          => threads[scheduler_thread].at # "done"

-----------------------------------------------------------------------------
(* TaskManager and ConfigurationManager *)

\* how long the list of tasks gets, and how many times the program is started
MaxStored == 2
MaxProcesses == 2

\* a dict is a function on the keys it has; None is "None", {} is "{}"
\* `options or {}`
OrEmpty(value) == IF value \in {"None", "{}"} THEN "{}" ELSE value

\* FileSyncTask.__init__ (and SyncTask.__init__): the task_type is "file_sync";
\* id tells one object from another
FileSyncTask(id, source, destination, task_options, schedule, conn) ==
    [id |-> id, source |-> source, destination |-> destination,
     task_type |-> "file_sync", options |-> OrEmpty(task_options),
     schedule |-> OrEmpty(schedule), connector |-> conn]

\* SyncTask.to_dict
ToDict(task) ==
    [source |-> task.source, destination |-> task.destination,
     task_type |-> task.task_type, options |-> task.options,
     schedule |-> task.schedule]

\* FileSyncTask.from_dict
FromDict(id, task_dict, conn) ==
    FileSyncTask(id, task_dict["source"], task_dict["destination"],
                 Get(task_dict, "options", "None"),
                 Get(task_dict, "schedule", "None"), conn)

\* the destinations in use: one that starts with "dropbox://", one that is local
DropboxDestination == "dropbox://remote_folder"
LocalDestination == "backup_folder"

\* create_connector; DropboxConnector.__init__ raises FileSynchronizationError
\* without dropbox_app_key and dropbox_app_secret in the configuration
CreateConnector(destination) ==
    IF destination = DropboxDestination THEN "DropboxConnector"
    ELSE "LocalFileConnector"
CreateConnectorRaises(destination, config) ==
    destination = DropboxDestination /\ ~config.dropbox

\* the tasks the program constructs: task1 of main.py and a local one with no
\* options and no schedule
NewTasks ==
    {[source |-> "test_source", destination |-> DropboxDestination,
      options |-> "delete,prompt", schedule |-> "interval=60"],
     [source |-> "test_source", destination |-> LocalDestination,
      options |-> "None", schedule |-> "None"]}

\* the entries settings.json may hold under "tasks": task1 as save_tasks wrote
\* it, an entry without options and schedule, one of a type that is never
\* registered, one without task_type
StoredDicts ==
    {[source |-> "test_source", destination |-> DropboxDestination,
      task_type |-> "file_sync", options |-> "delete,prompt",
      schedule |-> "interval=60"],
     [source |-> "test_source", destination |-> LocalDestination,
      task_type |-> "file_sync"],
     [source |-> "test_source", destination |-> LocalDestination,
      task_type |-> "archive", options |-> "{}", schedule |-> "{}"],
     [source |-> "test_source", destination |-> LocalDestination]}
StoredLists == UNION {[1..n -> StoredDicts] : n \in 0..MaxStored}

\* the settings.json the first start finds
ConfigFiles ==
    {ConfigFile("missing", EmptyConfig), ConfigFile("invalid", EmptyConfig)}
    \cup {ConfigFile("json", Config(FALSE, <<>>, d)) : d \in BOOLEAN}
    \cup {ConfigFile("json", Config(TRUE, l, d)) : l \in StoredLists, d \in BOOLEAN}

TaskInit ==
    /\ NoPass
    /\ NoScheduler
    /\ NoConnectorCall
    /\ config_file \in ConfigFiles
    /\ config_instance = FALSE
    /\ config_data = EmptyConfig
    /\ instance = FALSE
    /\ task_list = <<>>
    /\ task_types = {}
    /\ last = NoCall
    /\ processes = 0

\* an id no task of the list has
FreshId(list) ==
    CHOOSE i \in 1..(Len(list) + 1) : \A k \in 1..Len(list) : list[k].id # i

\* load_tasks: the loop over tasks_data, from the tasks loaded so far; an
\* exception other than KeyError and ValueError ends the loop and the call
RECURSIVE LoadFrom(_, _, _, _)
LoadFrom(tasks_data, types, config, loaded) ==
    IF tasks_data = <<>> THEN [tasks |-> loaded, raised |-> FALSE]
    ELSE LET task_dict == Head(tasks_data)
             rest == Tail(tasks_data) IN
         IF "task_type" \notin DOMAIN task_dict
         THEN LoadFrom(rest, types, config, loaded)
         ELSE IF task_dict["task_type"] \notin types
         THEN LoadFrom(rest, types, config, loaded)
         ELSE IF "destination" \notin DOMAIN task_dict
         THEN LoadFrom(rest, types, config, loaded)
         ELSE IF CreateConnectorRaises(task_dict["destination"], config)
         THEN [tasks |-> loaded, raised |-> TRUE]
         ELSE IF "source" \notin DOMAIN task_dict
         THEN LoadFrom(rest, types, config, loaded)
         ELSE LoadFrom(rest, types, config,
                       Append(loaded, FromDict(FreshId(loaded), task_dict,
                                  CreateConnector(task_dict["destination"]))))

\* get_config("tasks", [])
GetConfigTasks(config) == IF config.has_tasks THEN config.tasks ELSE <<>>

LoadTasks(config, types) == LoadFrom(GetConfigTasks(config), types, config, <<>>)

\* load_config: {} when the file is missing or is not JSON
LoadConfig(file) == IF file.state = "json" THEN file.data ELSE EmptyConfig

\* save_config: the file is written, or open() fails and the file is as it
\* was, or the dump fails after open() truncated it; no exception gets out
WriteOutcomes == {"written", "refused", "truncated"}
SaveConfig(file, config, outcome) ==
    CASE outcome = "written" -> ConfigFile("json", config)
      [] outcome = "refused" -> file
      [] OTHER -> ConfigFile("invalid", EmptyConfig)

SetConfigKeepsOld(config, value) == config

\* set_config("tasks", value), the assignment
SetConfig(config, value) == [config EXCEPT !.has_tasks = TRUE, !.tasks = value]

\* the list comprehension of save_tasks
TasksData(list) == [i \in 1..Len(list) |-> ToDict(list[i])]

\* what two save_config calls in a row may leave in the file
SavedTwice(file, config) ==
    {SaveConfig(SaveConfig(file, config, first), config, second) :
        first \in WriteOutcomes, second \in WriteOutcomes}

\* save_tasks: set_config, which saves, then save_config once more
SaveTasks(list) ==
    /\ config_data' = SetConfig(config_data, TasksData(list))
    /\ config_file' \in SavedTwice(config_file, config_data')

This(op, raised) ==
    Called(op, raised, last.op, IF raised THEN task_list ELSE <<>>,
           IF raised THEN config_data ELSE EmptyConfig)

\* the program starts: ConfigurationManager("settings.json")
ConfigurationManagerNew ==
    /\ ~config_instance
    /\ processes < MaxProcesses
    /\ processes' = processes + 1
    /\ config_instance' = TRUE
    /\ config_data' = LoadConfig(config_file)
    /\ last' = This("ConfigurationManager", FALSE)
    /\ UNCHANGED <<config_file, instance, task_list, task_types,
                   passVars, schedVars, connVars>>

\* TaskManager(config_manager), the first time: tasks = [], task_types = {},
\* then load_tasks()
TaskManagerNew ==
    /\ config_instance /\ ~instance
    /\ instance' = TRUE
    /\ task_types' = {}
    /\ LET loaded == LoadTasks(config_data, {}) IN
          /\ task_list' = loaded.tasks
          /\ last' = This("TaskManager", loaded.raised)
    /\ UNCHANGED <<config_file, config_instance, config_data, processes,
                   passVars, schedVars, connVars>>

\* register_task_type("file_sync", FileSyncTask)
RegisterTaskType ==
    /\ instance
    /\ task_types' = task_types \cup {"file_sync"}
    /\ last' = This("register_task_type", FALSE)
    /\ UNCHANGED <<config_file, config_instance, config_data, instance,
                   task_list, processes, passVars, schedVars, connVars>>

\* load_tasks(), called on the instance
LoadTasksCall ==
    /\ instance
    /\ LET loaded == LoadTasks(config_data, task_types) IN
          /\ task_list' = loaded.tasks
          /\ last' = This("load_tasks", loaded.raised)
    /\ UNCHANGED <<config_file, config_instance, config_data, instance,
                   task_types, processes, passVars, schedVars, connVars>>

\* add_task(task) with a task just constructed
AddTask ==
    /\ instance
    /\ Len(task_list) < MaxStored
    /\ \E new \in NewTasks :
          /\ task_list' = Append(task_list,
                 FileSyncTask(FreshId(task_list), new.source, new.destination,
                              new.options, new.schedule,
                              CreateConnector(new.destination)))
          /\ SaveTasks(task_list')
    /\ last' = This("add_task", FALSE)
    /\ UNCHANGED <<config_instance, instance, task_types, processes,
                   passVars, schedVars, connVars>>

\* a task that is not in the list
Foreign == FileSyncTask(0, "test_source", LocalDestination, "None", "None",
                        "LocalFileConnector")

\* list.remove: the first element equal to the task goes
ListRemove(list, task) ==
    LET k == CHOOSE i \in 1..Len(list) :
                 list[i] = task /\ \A j \in 1..(i - 1) : list[j] # task
    IN SubSeq(list, 1, k - 1) \o SubSeq(list, k + 1, Len(list))

\* remove_task(task): list.remove raises ValueError for a task not in the list
RemoveTask ==
    /\ instance
    /\ \E task \in {task_list[i] : i \in 1..Len(task_list)} \cup {Foreign} :
          IF \E i \in 1..Len(task_list) : task_list[i] = task
          THEN /\ task_list' = ListRemove(task_list, task)
               /\ SaveTasks(task_list')
               /\ last' = This("remove_task", FALSE)
          ELSE /\ last' = This("remove_task", TRUE)
               /\ UNCHANGED <<task_list, config_data, config_file>>
    /\ UNCHANGED <<config_instance, instance, task_types, processes,
                   passVars, schedVars, connVars>>

\* the program ends; settings.json stays
Exit ==
    /\ config_instance
    /\ config_instance' = FALSE
    /\ config_data' = EmptyConfig
    /\ instance' = FALSE
    /\ task_list' = <<>>
    /\ task_types' = {}
    /\ last' = NoCall
    /\ UNCHANGED <<config_file, processes, passVars, schedVars, connVars>>

TaskNext ==
    \/ ConfigurationManagerNew
    \/ TaskManagerNew
    \/ RegisterTaskType
    \/ LoadTasksCall
    \/ AddTask
    \/ RemoveTask
    \/ Exit

TaskSpec == TaskInit /\ [][TaskNext]_vars

-----------------------------------------------------------------------------
(* C25 *)

\* the persisted entries of a registered type, in the order they are stored
OfRegisteredType(dicts, types) ==
    SelectSeq(dicts, LAMBDA d : "task_type" \in DOMAIN d /\ d["task_type"] \in types)

\* the tasks of the list are the entries, one for one and in the same order,
\* with the same source, destination, options and schedule (an entry without
\* options or schedule has the empty dict)
Restored(list, dicts) ==
    /\ Len(list) = Len(dicts)
    /\ \A i \in 1..Len(dicts) :
          /\ list[i].source = dicts[i]["source"]
          /\ list[i].destination = dicts[i]["destination"]
          /\ list[i].options = OrEmpty(Get(dicts[i], "options", "None"))
          /\ list[i].schedule = OrEmpty(Get(dicts[i], "schedule", "None"))

\* C25 (as claimed): after load_tasks, and after the start-up sequence
\* (TaskManager constructed, then the type registered), the task list holds
\* every persisted entry of a registered type, in the stored order and with
\* the same source, destination, options and schedule.
C25_PersistedTasksAreRestored ==
    (\/ last.op = "load_tasks"
     \/ last.op = "register_task_type" /\ last.prev = "TaskManager")
        => Restored(task_list, OfRegisteredType(GetConfigTasks(config_data), task_types))

-----------------------------------------------------------------------------
(* C30 *)

\* C30: after an add_task or a remove_task that returned, the list under the
\* key "tasks" of the configuration is the in-memory list serialized, task for
\* task and in the same order; a remove_task that raised (the task was not in
\* the list) left the in-memory list and the configuration as they were.
C30_StoredListFollowsMemory ==
    /\ (last.op \in {"add_task", "remove_task"} /\ ~last.raised)
          => /\ config_data.has_tasks
             /\ Len(config_data.tasks) = Len(task_list)
             /\ \A i \in 1..Len(task_list) : config_data.tasks[i] = ToDict(task_list[i])
    /\ (last.op = "remove_task" /\ last.raised)
          => task_list = last.tasks /\ config_data = last.config

\* remove_task has taken the first of two tasks out of the list (the one left
\* is the second that was constructed), and the configuration holds that one
C30_Witness ==
    /\ last.op = "remove_task" /\ ~last.raised
    /\ Len(task_list) = 1 /\ task_list[1].id = 2
    /\ config_data.tasks = <<ToDict(task_list[1])>>

-----------------------------------------------------------------------------
(* C31 *)

\* the option is set to a value that is neither "prompt" nor "rename"
Unrecognized ==
    /\ "conflict_resolution" \in DOMAIN options
    /\ options["conflict_resolution"] \notin {"prompt", "rename"}

\* the destination paths on which the pass has detected a conflict so far
Conflicting == {log[i].path : i \in Calls("conflict")}

\* C31: with an unrecognized conflict_resolution, the step that detects a
\* conflict makes no connector call, asks nothing and leaves every tree as it
\* was, and the pass goes on (it is still running, or it has returned having
\* had nothing left); no later step of the pass uploads to, deletes or creates
\* the conflicting path. With no conflict_resolution in the options, the step
\* that detects a conflict opens the prompt on that entry and changes nothing.
C31_UnrecognizedPolicyChangesNothing ==
    [][/\ \A k \in 1..Len(Added) :
             Added[k].op = "conflict" =>
                /\ Unrecognized =>
                      /\ fs' = fs
                      /\ \A j \in 1..Len(Added) :
                            Added[j].op \notin Mutating \cup {"input"}
                      /\ IF stack' = <<>>
                         THEN pc' = "idle" /\ outcomes' = Append(outcomes, "returned")
                         ELSE /\ pc' = "running" /\ outcomes' = outcomes
                              /\ stack'[Len(stack')].asking = {}
                /\ "conflict_resolution" \notin DOMAIN options =>
                      /\ AskingFor(stack', BaseName(Added[k].path))
                      /\ fs' = fs /\ pc' = "running"
                      /\ \A j \in 1..Len(Added) : Added[j].op \notin Mutating
       /\ (Unrecognized /\ pc = "running") =>
             \A j \in 1..Len(Added) :
                Added[j].op \in Mutating => Added[j].path \notin Conflicting]_vars

\* a pass with an unrecognized option has returned: it detected a conflict,
\* went on to a connector call on another entry that returned, and the
\* conflicting destination file is as it was before the pass
C31_Witness ==
    /\ Unrecognized
    /\ runs = 1 /\ pc = "idle" /\ outcomes[1] = "returned"
    /\ \E i \in Calls("conflict") :
          /\ \E j \in (i + 1)..Len(log) :
                log[j].op \in Mutating /\ log[j].ok /\ log[j].path # log[i].path
          /\ fs[log[i].path] = fs0[log[i].path]

====
